---- MODULE Spec2Model ----
(***************************************************************************)
(* The rollout of PocatModel.forward (transformer_solver/model.py): the    *)
(* multi-start replication, the initial start action, the two-phase        *)
(* decoding loop and the result record.  The environment (PocatEnv) is a   *)
(* black box: what select_start_nodes, step and get_action_mask return is  *)
(* chosen nondeterministically from small sets.  The learned projections   *)
(* are black boxes too: the compatibility scores of a step are chosen      *)
(* nondeterministically, and everything the code does with them (masking,  *)
(* log-softmax, arg-max or sampling, gather) is computed.                  *)
(* Indices are 0-based as in the source.                                   *)
(***************************************************************************)
EXTENDS Integers, Sequences, FiniteSets, TLC

\* ---------------------------------------------------------------- bounds
NumNodes == 2        \* nodes of a problem instance, indices 0..NumNodes-1
MaxBatch == 2        \* largest base batch size td.batch_size[0]
MaxStarts == 2       \* largest num_starts the environment returns
MaxWork == 5         \* node decisions an episode may take: T trajectories of NumNodes nodes each iteration
MaxScore == 1        \* raw compatibility scores range over 0..MaxScore

\* ------------------------------------------------------ program constants
NegFill == -1000000000   \* the sentinel of masked_fill, -1e9
ExpRange == 103          \* exp(x) is 0 in float32 for x below -ExpRange

Nodes == 0 .. (NumNodes - 1)
Traj(T) == 0 .. (T - 1)
PhaseValues == {0, 1, 2}     \* 0 select load, 1 extend trajectory, 2 any other value
Unbound == << >>             \* a tensor local of forward that has not been assigned
NoReward == << >>            \* the "reward" key is absent from output_td
NoResult == [reward |-> << >>, log_likelihood |-> << >>, actions |-> << >>]

\* ------------------------------------------------------------ arithmetic
RECURSIVE Pow2(_)
Pow2(k) == IF k <= 0 THEN 1 ELSE 2 * Pow2(k - 1)

RECURSIVE CeilLog2(_)
CeilLog2(n) == IF n <= 1 THEN 0 ELSE 1 + CeilLog2((n + 1) \div 2)

RECURSIVE SumOver(_, _)
SumOver(f, S) ==
    IF S = {} THEN 0
    ELSE LET x == CHOOSE y \in S : TRUE IN f[x] + SumOver(f, S \ {x})

MaxOf(S) == CHOOSE x \in S : \A y \in S : y <= x
MinOf(S) == CHOOSE x \in S : \A y \in S : x <= y

\* ------------------------------------------------------- tensor helpers
\* batchify(x, repeats) of common.utils.common: the batch x (a tensor over
\* 0..n-1) is replicated as a whole, repeats times, copy after copy.
batchify(x, repeats) ==
    LET n == Cardinality(DOMAIN x)
    IN  [t \in Traj(n * repeats) |-> x[t % n]]

\* Variant of Tensor.repeat that leaves the tensor as it is.
repeat_once(x, k) == x

\* Tensor.repeat(k) of a 1-D tensor: the tensor tiled k times.
repeat(x, k) ==
    LET n == Cardinality(DOMAIN x)
    IN  [t \in Traj(n * k) |-> x[t % n]]

\* torch.stack([part1, part2], dim=1): one (child, parent) pair per trajectory.
stack2(part1, part2) == [t \in DOMAIN part1 |-> <<part1[t], part2[t]>>]

zeros_like(x) == [t \in DOMAIN x |-> 0]
zeros(T) == [t \in Traj(T) |-> 0]

\* Variant of masked_fill that leaves the scores unmasked.
masked_fill_none(row, m) == row

\* scores.masked_fill(~m, -1e9) on one row.
masked_fill(row, m) == [i \in Nodes |-> IF m[i] THEN row[i] ELSE NegFill]

\* exp(x - top) in units of 2^-MaxScore; 0 when it underflows.
ExpUnits(gap) == IF gap > ExpRange THEN 0 ELSE Pow2(MaxScore - gap)

\* F.log_softmax(row, dim=-1) in base 2, the log-sum-exp rounded up.
log_softmax(row) ==
    LET top == MaxOf({row[i] : i \in Nodes})
        w   == [i \in Nodes |-> ExpUnits(top - row[i])]
        lse == top + CeilLog2(SumOver(w, Nodes)) - MaxScore
    IN  [i \in Nodes |-> row[i] - lse]

\* log_prob.argmax(dim=-1) on one row: the first index of the largest value.
argmax(row) ==
    MinOf({i \in Nodes : \A j \in Nodes : row[j] <= row[i]})

\* The indices Categorical(probs=log_prob.exp()).sample() can return for one
\* row: those whose probability exp(log_prob) is not 0.
CategoricalSupport(row) == {i \in Nodes : row[i] >= -ExpRange}

\* Variant of gather that reads index 0 of every row.
gather_first(log_prob, selected) == [t \in DOMAIN log_prob |-> log_prob[t][0]]

\* log_prob.gather(1, selected.unsqueeze(-1)).squeeze(-1)
gather(log_prob, selected) == [t \in DOMAIN log_prob |-> log_prob[t][selected[t]]]

\* encoded_nodes.mean(dim=1): per trajectory the mean of its node embeddings,
\* with no action folded in yet.
mean(encoded) == [t \in DOMAIN encoded |-> [mean_of |-> encoded[t], gru |-> << >>]]

\* encoded_nodes[arange(B), idx]: per trajectory the embedding of node idx[t],
\* named by the instance encoded and the node.
embedding_at(encoded, idx) == [t \in DOMAIN encoded |-> <<encoded[t], idx[t]>>]

\* torch.cat([a, b], dim=1)
cat(a, b) == [t \in DOMAIN a |-> <<a[t], b[t]>>]

\* Variant of the recurrent cell that drops its input and keeps the state.
context_gru_keep(input, hx) == hx

\* self.context_gru(input, hx): the new context folds the input into hx.
context_gru(input, hx) ==
    [t \in DOMAIN hx |-> [hx[t] EXCEPT !.gru = Append(@, input[t])]]

\* mask[:, :, 0]: for each trajectory the row over the middle axis at last index 0.
mask_for_load_select(mask) ==
    [t \in DOMAIN mask |-> [i \in Nodes |-> mask[t][i][0]]]

\* mask[arange(B), :, trajectory_head_idx]: row over the middle axis at last
\* index trajectory_head_idx[t].
mask_for_parent_select(mask, trajectory_head_idx) ==
    [t \in DOMAIN mask |-> [i \in Nodes |-> mask[t][i][trajectory_head_idx[t]]]]

\* ------------------------------------------------------------- the state
VARIABLES
    pc,                  \* position in forward: "init", "loop" (line 150), "step" (line 199),
                         \* "returned", "failed"
    decode_type,         \* the decode_type argument
    batch_size,          \* td.batch_size[0] before replication
    num_starts,          \* first component of env.select_start_nodes(td)
    start_nodes_idx,     \* second component, a tensor over 0..num_starts-1
    expanded_batch_size, \* td.batch_size[0] after batchify
    instance,            \* per trajectory: the original problem instance its td row copies
    encoded_nodes,       \* per trajectory: the instance whose node embeddings its row holds
    td,                  \* the working state: done, decoding_phase, trajectory_head,
                         \* main_tree_mask and, once set, action
    output_td,           \* what the last env.step returned: next, reward
    iter,                \* the locals of the iteration in progress: mask, phase,
                         \* trajectory_head_idx, parent_q_in, log_prob, selected; and
                         \* fetched, the tensor env.get_action_mask returned
    action,              \* the action tensor, one (child, parent) pair per trajectory
    log_prob_val,        \* the log-probability of the last selection
    log_probs,           \* the list log_probs
    actions,             \* the list actions
    context_embedding,   \* per trajectory: the mean it started from and the inputs
                         \* context_gru has folded into it
    result,              \* the returned record
    error,               \* the exception that ended forward, if any
    calls,               \* how often each collaborator has been called, and log, the
                         \* calls in the order they were made
    audit,               \* per trajectory, summed as the steps are committed: the
                         \* log-probability the distribution behind each committed
                         \* action gave to the index that action selected
    twin                 \* a second run of forward on the same inputs, parameters and
                         \* environment answers: its action, log_prob_val, actions
                         \* and log_probs

vars == <<pc, decode_type, batch_size, num_starts, start_nodes_idx,
          expanded_batch_size, instance, encoded_nodes, td, output_td, iter,
          action, log_prob_val, log_probs, actions, context_embedding, result,
          error, calls, audit, twin>>

\* ------------------------------------------------------- the environment
\* A per-trajectory tensor whose entry for trajectory 0 is a and whose other
\* entries are b: the environment's answers differ between trajectory 0, whose
\* phase the loop reads, and the rest.
Split(T, a, b) == [t \in Traj(T) |-> IF t = 0 THEN a ELSE b]

AllTrue == [i \in Nodes |-> [j \in Nodes |-> TRUE]]
AllFalse == [i \in Nodes |-> [j \in Nodes |-> FALSE]]
Single(c, p) == [i \in Nodes |-> [j \in Nodes |-> i = c /\ j = p]]
\* The N x N legality matrices the environment hands out for one trajectory.
MaskShapes == {AllTrue, AllFalse} \cup {Single(c, p) : c \in Nodes, p \in Nodes}

\* env.get_action_mask(td): boolean tensor [trajectory, N, N].  All
\* trajectories get the same matrix, or trajectory 0 or the others get none
\* that is legal.
EnvMasks(T) ==
    {Split(T, a, a) : a \in MaskShapes}
    \cup {Split(T, AllFalse, b) : b \in MaskShapes}
    \cup {Split(T, a, AllFalse) : a \in MaskShapes}

\* env.select_start_nodes(td): num_starts distinct candidate start nodes, in
\* the order of their indices.
EnvStartNodes(S) ==
    {f \in [Traj(S) -> Nodes] : \A a \in Traj(S) : \A b \in Traj(S) : a < b => f[a] < f[b]}

\* main_tree_mask of the states env.step returns: it feeds the phase-0 query
\* only, whose scores are chosen freely, so one value stands for all.
MainTree(T) == [t \in Traj(T) |-> [i \in Nodes |-> i = 0]]

\* The loop iterations the environment lets an episode of T trajectories run:
\* each iteration decides among NumNodes nodes for each of T trajectories.
Horizon(T) == MaxWork \div (T * NumNodes)

\* The states env.step returns while some trajectory goes on.  Only the
\* phase of trajectory 0 is read, so the others are in phase 0 or 1;
\* trajectory_head, the same node for every trajectory, is read only when
\* trajectory 0 is in phase 1, and is 0 otherwise.
EnvRunning(T) ==
    {[done |-> d, decoding_phase |-> Split(T, a, b), trajectory_head |-> h,
      main_tree_mask |-> MainTree(T)] :
        d \in {Split(T, x, y) : x \in BOOLEAN, y \in BOOLEAN} \ {Split(T, TRUE, TRUE)},
        a \in PhaseValues, b \in {0, 1},
        h \in {Split(T, x, x) : x \in Nodes}}

\* The state env.step returns when every trajectory is done; phase and head
\* are not read any more.
EnvDone(T) ==
    [done |-> Split(T, TRUE, TRUE), decoding_phase |-> Split(T, 0, 0),
     trajectory_head |-> Split(T, 0, 0), main_tree_mask |-> MainTree(T)]

\* env.step(td), the k-th call: the next state and a reward.  The reward of
\* the k-th call is k for every trajectory, so that the rewards of different
\* steps differ; on the terminal step the reward may be missing.
EnvStep(T, k) ==
    {[next |-> n, reward |-> Split(T, k, k)] :
        n \in {x \in EnvRunning(T) :
                 /\ k <= Horizon(T)
                 /\ x.decoding_phase[0] # 1 => x.trajectory_head = Split(T, 0, 0)}}
    \cup {[next |-> EnvDone(T), reward |-> r] : r \in {NoReward, Split(T, k, k)}}

\* The compatibility scores the projections produce for one trajectory: all
\* nodes level, or one node raised to the top score.
ScoreRows ==
    {[i \in Nodes |-> 0]}
    \cup {[i \in Nodes |-> IF i = b THEN MaxScore ELSE 0] : b \in Nodes}

\* The compatibility scores of one step: the same row for every trajectory.
ScoreTensors(T) == {Split(T, a, a) : a \in ScoreRows}

\* ------------------------------------------------------------ the policy
\* Variant of the loop test that looks at trajectory 0 alone.
LoopCondFirst(state) == ~state.done[0]

\* while not td["done"].all()
LoopCond(state) == ~(\A t \in DOMAIN state.done : state.done[t])

\* Variant of the phase read that looks at the last trajectory.
PhaseOfLast(state) == state.decoding_phase[Cardinality(DOMAIN state.decoding_phase) - 1]

\* td["decoding_phase"][0, 0].item()
Phase(state) == state.decoding_phase[0]

\* Variant of the state hand-over that keeps the state forward already held.
KeepState(state, out) == state

\* td = output_td["next"]
NextState(state, out) == out.next

\* Variant of td.set that also clears the done flags.
td_set_reset(state, act) ==
    [done |-> [t \in DOMAIN state.done |-> FALSE], decoding_phase |-> state.decoding_phase,
     trajectory_head |-> state.trajectory_head, main_tree_mask |-> state.main_tree_mask,
     action |-> act]

\* td.set("action", action)
td_set(state, act) ==
    [done |-> state.done, decoding_phase |-> state.decoding_phase,
     trajectory_head |-> state.trajectory_head, main_tree_mask |-> state.main_tree_mask,
     action |-> act]

\* Variant of the start action with the start node in the parent slot.
StartActionSwapped(start_idx, B) ==
    stack2(zeros_like(repeat(start_idx, B)), repeat(start_idx, B))

\* The forced first action: (start node, 0) per trajectory.
StartAction(start_idx, B) ==
    LET action_part1 == repeat(start_idx, B)
        action_part2 == zeros_like(action_part1)
    IN  stack2(action_part1, action_part2)

\* Phase 0: masked log-softmax over the load scores.
LoadLogProb(scores, m) ==
    [t \in DOMAIN scores |-> log_softmax(masked_fill(scores[t], mask_for_load_select(m)[t]))]

\* Phase 1: masked log-softmax over the parent scores.
ParentLogProb(parent_scores, m, head) ==
    [t \in DOMAIN parent_scores |->
        log_softmax(masked_fill(parent_scores[t], mask_for_parent_select(m, head)[t]))]

\* Variant of the parent query that reads the context as it was initialised.
ParentQueryInitialContext(context, head_emb) ==
    cat([t \in DOMAIN context |-> [context[t] EXCEPT !.gru = << >>]], head_emb)

\* parent_q_in = torch.cat([context_embedding, head_emb], dim=1)
ParentQuery(context, head_emb) == cat(context, head_emb)

\* Variant of the selection whose arg-max may return any of several largest.
SelectAnyMax(lp, decode) ==
    IF decode = "sampling"
    THEN {s \in [DOMAIN lp -> Nodes] : \A t \in DOMAIN lp : s[t] \in CategoricalSupport(lp[t])}
    ELSE {s \in [DOMAIN lp -> Nodes] :
            \A t \in DOMAIN lp : \A j \in Nodes : lp[t][j] <= lp[t][s[t]]}

\* The selection by decode_type: a sample of the categorical distribution,
\* or the arg-max for any other decode_type.
Select(lp, decode) ==
    IF decode = "sampling"
    THEN {s \in [DOMAIN lp -> Nodes] : \A t \in DOMAIN lp : s[t] \in CategoricalSupport(lp[t])}
    ELSE {[t \in DOMAIN lp |-> argmax(lp[t])]}

\* The selection of the second run: the arg-max taken anew; under sampling
\* the second run is handed the draws of the first.
TwinSelect(lp, decode, selected) ==
    IF decode = "sampling" THEN {selected} ELSE Select(lp, decode)

Phase0Action(selected_load) == stack2(selected_load, zeros_like(selected_load))

\* Variant of the phase-1 action with child and parent exchanged.
Phase1ActionSwapped(head, selected_parent_idx) == stack2(selected_parent_idx, head)

Phase1Action(head, selected_parent_idx) == stack2(head, selected_parent_idx)

\* Variant of the log-likelihood that keeps the last step alone.
LogLikelihoodLast(lps, T) == IF Len(lps) > 0 THEN lps[Len(lps)] ELSE zeros(T)

\* torch.stack(log_probs, 1).sum(1)
LogLikelihood(lps, T) ==
    IF Len(lps) > 0
    THEN [t \in Traj(T) |-> SumOver([k \in 1 .. Len(lps) |-> lps[k][t]], 1 .. Len(lps))]
    ELSE zeros(T)

\* Variant of the stacking that leaves out the start action.
StackLoopActions(acts, T) == [t \in Traj(T) |-> [k \in 1 .. (Len(acts) - 1) |-> acts[k + 1][t]]]

\* torch.stack(actions, 1): per trajectory the sequence of its actions.
StackActions(acts, T) == [t \in Traj(T) |-> [k \in 1 .. Len(acts) |-> acts[k][t]]]

\* Variant of the final reward that returns the reward of the start step.
InitialReward(out) == [t \in DOMAIN out.reward |-> 1]

\* final_reward = output_td["reward"]
FinalReward(out) == out.reward

\* The locals of an iteration before it assigns them.
NoIter == [mask |-> Unbound, fetched |-> Unbound, phase |-> -1,
           trajectory_head_idx |-> Unbound, parent_q_in |-> Unbound,
           log_prob |-> Unbound, selected |-> Unbound]

\* ---------------------------------------------------------------- Init
Init ==
    /\ pc = "init"
    /\ decode_type \in {"greedy", "sampling"}
    /\ batch_size \in 1 .. MaxBatch
    /\ num_starts = 0
    /\ start_nodes_idx = << >>
    /\ expanded_batch_size = 0
    /\ instance = << >>
    /\ encoded_nodes = << >>
    /\ td = [done |-> << >>, decoding_phase |-> << >>, trajectory_head |-> << >>,
             main_tree_mask |-> << >>]
    /\ output_td = [next |-> td, reward |-> NoReward]
    /\ iter = NoIter
    /\ action = Unbound
    /\ log_prob_val = Unbound
    /\ log_probs = << >>
    /\ actions = << >>
    /\ context_embedding = << >>
    /\ result = NoResult
    /\ error = "none"
    /\ calls = [select_start_nodes |-> 0, step |-> 0, get_action_mask |-> 0,
                select |-> 0, context_gru |-> 0, log |-> << >>]
    /\ audit = [ll |-> << >>, inc |-> << >>]
    /\ twin = [action |-> Unbound, log_prob_val |-> Unbound, actions |-> << >>,
               log_probs |-> << >>]

\* Lines 128-148: start nodes, replication, the initial context, the start
\* action and its step.
Start ==
    /\ pc = "init"
    /\ \E S \in 1 .. MaxStarts :
       \E sidx \in EnvStartNodes(S) :
         LET T   == batch_size * S
             act == StartAction(sidx, batch_size)
             enc == batchify([b \in Traj(batch_size) |-> b], S)
         IN  \E out \in EnvStep(T, 1) :
               /\ num_starts' = S
               /\ start_nodes_idx' = sidx
               /\ instance' = batchify([b \in Traj(batch_size) |-> b], S)
               /\ encoded_nodes' = enc
               /\ expanded_batch_size' = T
               /\ context_embedding' = mean(enc)
               /\ action' = act
               /\ output_td' = out
               /\ td' = NextState(td, out)
               /\ actions' = Append(actions, act)
               /\ log_probs' = Append(log_probs, zeros(T))
               /\ audit' = [ll |-> zeros(T), inc |-> zeros(T)]
               /\ twin' = [action |-> act, log_prob_val |-> Unbound,
                           actions |-> <<act>>, log_probs |-> <<zeros(T)>>]
    /\ pc' = "loop"
    /\ calls' = [calls EXCEPT !.select_start_nodes = @ + 1, !.step = @ + 1,
                              !.log = @ \o <<"select_start_nodes", "step">>]
    /\ UNCHANGED <<decode_type, batch_size, iter, log_prob_val, result, error>>

\* Lines 150-174, 199: the loop test, the mask, the selection of phase 0, and
\* the action set in the state.
SelectLoad ==
    /\ pc = "loop"
    /\ LoopCond(td)
    /\ Phase(td) = 0
    /\ \E m \in EnvMasks(expanded_batch_size) :
       \E scores \in ScoreTensors(expanded_batch_size) :
         LET lp == LoadLogProb(scores, m)
         IN  \E selected_load \in Select(lp, decode_type) :
             \E twin_load \in TwinSelect(lp, decode_type, selected_load) :
               /\ iter' = [mask |-> m, fetched |-> m, phase |-> 0,
                           trajectory_head_idx |-> Unbound, parent_q_in |-> Unbound,
                           log_prob |-> lp, selected |-> selected_load]
               /\ action' = Phase0Action(selected_load)
               /\ log_prob_val' = gather(lp, selected_load)
               /\ audit' = [audit EXCEPT !.inc =
                              [t \in DOMAIN lp |-> lp[t][selected_load[t]]]]
               /\ twin' = [twin EXCEPT !.action = Phase0Action(twin_load),
                                       !.log_prob_val = gather(lp, twin_load)]
    /\ td' = td_set(td, action')
    /\ pc' = "step"
    /\ calls' = [calls EXCEPT !.get_action_mask = @ + 1, !.select = @ + 1,
                              !.log = Append(@, "get_action_mask")]
    /\ UNCHANGED <<decode_type, batch_size, num_starts, start_nodes_idx,
                   expanded_batch_size, instance, encoded_nodes, output_td,
                   log_probs, actions, context_embedding, result, error>>

\* Lines 150-153, 176-199: the loop test, the mask, the selection of phase 1,
\* and the action set in the state.
SelectParent ==
    /\ pc = "loop"
    /\ LoopCond(td)
    /\ Phase(td) = 1
    /\ \E m \in EnvMasks(expanded_batch_size) :
       \E parent_scores \in ScoreTensors(expanded_batch_size) :
         LET head     == td.trajectory_head
             head_emb == embedding_at(encoded_nodes, head)
             lp       == ParentLogProb(parent_scores, m, head)
         IN  \E selected_parent_idx \in Select(lp, decode_type) :
             \E twin_parent_idx \in TwinSelect(lp, decode_type, selected_parent_idx) :
               /\ iter' = [mask |-> m, fetched |-> m, phase |-> 1,
                           trajectory_head_idx |-> head,
                           parent_q_in |-> ParentQuery(context_embedding, head_emb),
                           log_prob |-> lp, selected |-> selected_parent_idx]
               /\ action' = Phase1Action(head, selected_parent_idx)
               /\ log_prob_val' = gather(lp, selected_parent_idx)
               /\ audit' = [audit EXCEPT !.inc =
                              [t \in DOMAIN lp |-> lp[t][selected_parent_idx[t]]]]
               /\ twin' = [twin EXCEPT !.action = Phase1Action(head, twin_parent_idx),
                                       !.log_prob_val = gather(lp, twin_parent_idx)]
    /\ td' = td_set(td, action')
    /\ pc' = "step"
    /\ calls' = [calls EXCEPT !.get_action_mask = @ + 1, !.select = @ + 1,
                              !.log = Append(@, "get_action_mask")]
    /\ UNCHANGED <<decode_type, batch_size, num_starts, start_nodes_idx,
                   expanded_batch_size, instance, encoded_nodes, output_td,
                   log_probs, actions, context_embedding, result, error>>

\* Lines 150-154, 176, 199: the loop test and the mask under a phase that is
\* neither 0 nor 1.  Neither branch runs: action and log_prob_val keep what
\* they held, and that action is set in the state.
SelectNothing ==
    /\ pc = "loop"
    /\ LoopCond(td)
    /\ Phase(td) \notin {0, 1}
    /\ \E m \in EnvMasks(expanded_batch_size) :
         iter' = [NoIter EXCEPT !.mask = m, !.fetched = m, !.phase = Phase(td)]
    /\ td' = td_set(td, action)
    /\ pc' = "step"
    /\ calls' = [calls EXCEPT !.get_action_mask = @ + 1,
                              !.log = Append(@, "get_action_mask")]
    /\ UNCHANGED <<decode_type, batch_size, num_starts, start_nodes_idx,
                   expanded_batch_size, instance, encoded_nodes, output_td, action,
                   log_prob_val, log_probs, actions, context_embedding, result,
                   error, audit, twin>>

\* Lines 200-208: the action is committed: env.step, the working state
\* replaced, both lists appended, the context updated.
Commit ==
    /\ pc = "step"
    /\ calls.select > 0
    /\ \E out \in EnvStep(expanded_batch_size, calls.step + 1) :
         /\ output_td' = out
         /\ td' = NextState(td, out)
    /\ actions' = Append(actions, action)
    /\ log_probs' = Append(log_probs, log_prob_val)
    /\ LET child_emb  == embedding_at(encoded_nodes, [t \in DOMAIN action |-> action[t][1]])
           parent_emb == embedding_at(encoded_nodes, [t \in DOMAIN action |-> action[t][2]])
       IN  context_embedding' = context_gru(cat(child_emb, parent_emb), context_embedding)
    /\ audit' = [audit EXCEPT !.ll = [t \in DOMAIN @ |-> @[t] + audit.inc[t]]]
    /\ twin' = [twin EXCEPT !.actions = Append(@, twin.action),
                            !.log_probs = Append(@, twin.log_prob_val)]
    /\ iter' = NoIter
    /\ pc' = "loop"
    /\ calls' = [calls EXCEPT !.step = @ + 1, !.context_gru = @ + 1,
                              !.log = @ \o <<"step", "context_gru">>]
    /\ UNCHANGED <<decode_type, batch_size, num_starts, start_nodes_idx,
                   expanded_batch_size, instance, encoded_nodes, action,
                   log_prob_val, result, error>>

\* Lines 200-204 when no selection has run yet: log_prob_val is unassigned,
\* and log_probs.append(log_prob_val) raises after env.step and
\* actions.append have run.
CommitUnbound ==
    /\ pc = "step"
    /\ calls.select = 0
    /\ \E out \in EnvStep(expanded_batch_size, calls.step + 1) :
         /\ output_td' = out
         /\ td' = NextState(td, out)
    /\ actions' = Append(actions, action)
    /\ twin' = [twin EXCEPT !.actions = Append(@, twin.action)]
    /\ pc' = "failed"
    /\ error' = "UnboundLocalError"
    /\ calls' = [calls EXCEPT !.step = @ + 1, !.log = Append(@, "step")]
    /\ UNCHANGED <<decode_type, batch_size, num_starts, start_nodes_idx,
                   expanded_batch_size, instance, encoded_nodes, iter, action,
                   log_prob_val, log_probs, context_embedding, result, audit>>

\* Lines 150, 210-216: the loop exits and the result record is returned.
Return ==
    /\ pc = "loop"
    /\ ~LoopCond(td)
    /\ output_td.reward # NoReward
    /\ result' = [reward         |-> FinalReward(output_td),
                  log_likelihood |-> LogLikelihood(log_probs, expanded_batch_size),
                  actions        |-> StackActions(actions, expanded_batch_size)]
    /\ pc' = "returned"
    /\ UNCHANGED <<decode_type, batch_size, num_starts, start_nodes_idx,
                   expanded_batch_size, instance, encoded_nodes, td, output_td,
                   iter, action, log_prob_val, log_probs, actions,
                   context_embedding, error, calls, audit, twin>>

\* Variant of the exit without a reward that returns zeros instead of raising.
ReturnZeroReward ==
    /\ pc = "loop"
    /\ ~LoopCond(td)
    /\ output_td.reward = NoReward
    /\ result' = [reward         |-> zeros(expanded_batch_size),
                  log_likelihood |-> LogLikelihood(log_probs, expanded_batch_size),
                  actions        |-> StackActions(actions, expanded_batch_size)]
    /\ pc' = "returned"
    /\ UNCHANGED <<decode_type, batch_size, num_starts, start_nodes_idx,
                   expanded_batch_size, instance, encoded_nodes, td, output_td,
                   iter, action, log_prob_val, log_probs, actions,
                   context_embedding, error, calls, audit, twin>>

\* Lines 150, 210: the loop exits and output_td has no "reward" key.
ReturnNoReward ==
    /\ pc = "loop"
    /\ ~LoopCond(td)
    /\ output_td.reward = NoReward
    /\ pc' = "failed"
    /\ error' = "KeyError"
    /\ UNCHANGED <<decode_type, batch_size, num_starts, start_nodes_idx,
                   expanded_batch_size, instance, encoded_nodes, td, output_td,
                   iter, action, log_prob_val, log_probs, actions,
                   context_embedding, result, calls, audit, twin>>

Next ==
    \/ Start
    \/ SelectLoad
    \/ SelectParent
    \/ SelectNothing
    \/ Commit
    \/ CommitUnbound
    \/ Return
    \/ ReturnNoReward

Spec == Init /\ [][Next]_vars

\* ================================================================ claims
AllDone == \A t \in Traj(expanded_batch_size) : td.done[t]
Last(seq) == seq[Len(seq)]

\* The row of the mask that the selection of trajectory t read in the
\* iteration in progress: mask[t, i, 0] in phase 0, mask[t, i, head_t] in
\* phase 1.
RowRead(t) ==
    [i \in Nodes |->
        IF iter.phase = 0 THEN iter.mask[t][i][0]
        ELSE iter.mask[t][i][td.trajectory_head[t]]]

Selecting == pc = "step" /\ iter.phase \in {0, 1}

\* ---------------------------------------------------------------- C1
\* C1 as stated: at every loop iteration and for every trajectory the index
\* selected (the child in phase 0, the parent in phase 1) has a True entry in
\* the mask fetched in that iteration.
C1_MaskedOutNeverSelected ==
    Selecting =>
        \A t \in Traj(expanded_batch_size) :
            /\ iter.phase = 0 => iter.mask[t][action[t][1]][0]
            /\ iter.phase = 1 => iter.mask[t][action[t][2]][td.trajectory_head[t]]

\* C1 amended: the index selected for a trajectory has a True entry in the
\* mask fetched in that iteration whenever the row read for that trajectory
\* has a True entry at all.
C1_MaskedOutNeverSelectedInLegalRow ==
    Selecting =>
        \A t \in Traj(expanded_batch_size) :
            (\E i \in Nodes : RowRead(t)[i]) =>
                /\ iter.phase = 0 => iter.mask[t][action[t][1]][0]
                /\ iter.phase = 1 => iter.mask[t][action[t][2]][td.trajectory_head[t]]

\* A selection from a row that has a legal and an illegal entry, by sampling.
C1_Witness ==
    /\ Selecting
    /\ decode_type = "sampling"
    /\ \E t \in Traj(expanded_batch_size) :
         /\ \E i \in Nodes : RowRead(t)[i]
         /\ \E i \in Nodes : ~RowRead(t)[i]

\* ---------------------------------------------------------------- C2
\* C2: every action (head, p) committed in phase 1 is a legal (child, parent)
\* pair of the mask read as in phase 0, mask[t, child, parent]:
\* mask[t, head_t, p_t] is True.  Stated for the trajectories whose row read
\* has a legal entry, so that an empty row is not what refutes it.
C2_ParentLegalForHead ==
    (pc = "step" /\ iter.phase = 1) =>
        \A t \in Traj(expanded_batch_size) :
            (\E i \in Nodes : RowRead(t)[i]) =>
                iter.mask[t][action[t][1]][action[t][2]]

\* ---------------------------------------------------------------- C3
\* C3: the trajectories that copy the same original instance are forced to
\* pairwise distinct start nodes.
C3_DistinctStartsPerInstance ==
    pc # "init" =>
        \A t1 \in Traj(expanded_batch_size) :
        \A t2 \in Traj(expanded_batch_size) :
            (t1 # t2 /\ instance[t1] = instance[t2])
                => actions[1][t1][1] # actions[1][t2][1]

\* ---------------------------------------------------------------- C4
\* C4: from the loop test a loop iteration starts if and only if some
\* trajectory is not done in the state the previous env.step returned;
\* otherwise forward leaves the loop at once and calls the environment no
\* more; nothing but that test ends the loop.
C4_Termination ==
    [][/\ pc = "loop" =>
            /\ pc' = "step" <=> ~AllDone
            /\ pc' \in {"returned", "failed"} <=> AllDone
            /\ AllDone => calls' = calls
       /\ calls'.step > calls.step /\ pc # "init" => ~AllDone]_vars

\* The loop has run an iteration and then returned.
C4_Witness == pc = "returned" /\ calls.get_action_mask >= 1

\* ---------------------------------------------------------------- C5
\* C5: right after the start step, one action (forced start node, 0) per
\* trajectory and log-probability 0 are recorded, env.step has been called
\* once, and no mask has been fetched and no selection made.
C5_InitialPseudoStep ==
    /\ pc # "init" =>
        /\ DOMAIN actions[1] = Traj(batch_size * num_starts)
        /\ \A t \in Traj(batch_size * num_starts) :
             /\ actions[1][t] = <<start_nodes_idx[t % num_starts], 0>>
             /\ log_probs[1][t] = 0
        /\ calls.step >= 1
        /\ calls.select_start_nodes = 1
    /\ (pc = "loop" /\ calls.get_action_mask = 0) =>
        /\ calls.step = 1
        /\ calls.select = 0
        /\ Len(actions) = 1
        /\ Len(log_probs) = 1

\* The start step of a multi-start rollout with a start node other than 0.
C5_Witness ==
    /\ pc = "loop"
    /\ calls.get_action_mask = 0
    /\ num_starts = 2
    /\ \E t \in Traj(expanded_batch_size) : actions[1][t][1] # 0

\* ---------------------------------------------------------------- C6
\* C6: between steps and at return the recorded actions, the recorded
\* log-probabilities and the env.step calls are equally many, and every
\* trajectory's returned action sequence has length 1 + loop iterations.
C6_LogLength ==
    /\ pc \in {"loop", "step", "returned"} =>
        /\ Len(actions) = calls.step
        /\ Len(log_probs) = calls.step
    /\ pc = "returned" =>
        \A t \in Traj(expanded_batch_size) :
            Len(result.actions[t]) = 1 + calls.get_action_mask

\* A rollout of two loop iterations has returned.
C6_Witness == pc = "returned" /\ calls.get_action_mask = 2

\* ---------------------------------------------------------------- C7
\* C7: the returned log_likelihood of each trajectory is the sum over the
\* recorded steps of the log-probability that the distribution behind the
\* step's action gave to the index selected, the start step counting 0.
C7_LogLikelihoodIsSum ==
    pc = "returned" =>
        \A t \in Traj(expanded_batch_size) : result.log_likelihood[t] = audit.ll[t]

\* A returned rollout in which the two trajectories sum to different values.
C7_Witness ==
    /\ pc = "returned"
    /\ expanded_batch_size = 2
    /\ result.log_likelihood[0] # result.log_likelihood[1]
    /\ result.log_likelihood[1] < 0

\* ---------------------------------------------------------------- C8
\* C8: the returned reward is the reward of the last env.step call (the k-th
\* call's reward is k), whatever the number of loop iterations.
C8_RewardOfLastStep ==
    pc = "returned" =>
        \A t \in Traj(expanded_batch_size) : result.reward[t] = calls.step

\* A rollout has returned after loop iterations, earlier rewards behind it.
C8_Witness == pc = "returned" /\ calls.step >= 2

\* ---------------------------------------------------------------- C9
\* The environment broke its contract in the iteration in progress: a row
\* read has no legal entry, or the phases differ across trajectories.
EmptyRowRead == \E t \in Traj(expanded_batch_size) : \A i \in Nodes : ~RowRead(t)[i]
PhasesDiffer ==
    \E t \in Traj(expanded_batch_size) : td.decoding_phase[t] # td.decoding_phase[0]

\* C9 as stated: no action is selected from a state in which a mask row is
\* empty or the phases differ, and no result is returned without a reward on
\* the terminal step.
C9_ViolationsAbort ==
    /\ Selecting => ~EmptyRowRead /\ ~PhasesDiffer
    /\ pc = "returned" => output_td.reward # NoReward
    /\ pc # "returned" => result = NoResult

\* C9 amended: only the missing reward aborts.  Leaving the loop without a
\* reward ends forward in a failure and no result record; with the phase of
\* trajectory 0 being 0 or 1 a selection is made whatever the mask rows and
\* the other trajectories' phases are, and the action selected is committed
\* without a failure.
C9_OnlyMissingRewardAborts ==
    [][/\ (pc = "loop" /\ AllDone /\ output_td.reward = NoReward)
            => (pc' = "failed" /\ result' = NoResult)
       /\ (pc = "loop" /\ ~AllDone /\ td.decoding_phase[0] \in {0, 1})
            => (pc' = "step" /\ calls'.select = calls.select + 1)
       /\ (Selecting /\ (EmptyRowRead \/ PhasesDiffer))
            => (pc' = "loop" /\ error' = "none" /\ calls'.step = calls.step + 1
                /\ Last(actions') = action)
       /\ pc' = "returned" => output_td.reward # NoReward]_vars

\* The terminal step of a rollout that ran an iteration brought no reward.
C9_Witness ==
    /\ pc = "failed"
    /\ error = "KeyError"
    /\ calls.select >= 1

\* ---------------------------------------------------------------- C10
\* C10: the start action and every action committed under phase 0 is
\* (selected load, 0); every action committed under phase 1 is
\* (trajectory_head before the step, selected index).
C10_ActionForm ==
    [][/\ pc = "init" =>
            \A t \in Traj(expanded_batch_size') :
                /\ Last(actions')[t][2] = 0
                /\ Last(actions')[t][1] = start_nodes_idx'[t % num_starts']
       /\ (pc = "step" /\ iter.phase = 0) =>
            \A t \in Traj(expanded_batch_size) :
                Last(actions')[t] = <<iter.selected[t], 0>>
       /\ (pc = "step" /\ iter.phase = 1) =>
            \A t \in Traj(expanded_batch_size) :
                Last(actions')[t] = <<td.trajectory_head[t], iter.selected[t]>>]_vars

\* A phase-1 action whose head and selected parent differ has been committed.
C10_Witness ==
    /\ pc = "loop"
    /\ calls.select >= 1
    /\ \E t \in Traj(expanded_batch_size) :
         Last(actions)[t][1] # Last(actions)[t][2] /\ Last(actions)[t][2] # 0

IsEnvCall(c) == c # "context_gru"
EnvCalls == SelectSeq(calls.log, IsEnvCall)
StateFields(state) ==
    [done |-> state.done, decoding_phase |-> state.decoding_phase,
     trajectory_head |-> state.trajectory_head, main_tree_mask |-> state.main_tree_mask]

\* C12: select_start_nodes is the first call and the only one of its kind;
\* after the start step the environment calls alternate get_action_mask,
\* step; a mask is fetched before the iteration's selection and step, on the
\* state the previous step returned; step is called once per recorded
\* action, and the state it returns is the working state from then on.
C12_CallProtocol ==
    pc # "init" =>
        /\ EnvCalls[1] = "select_start_nodes"
        /\ \A k \in 2 .. Len(EnvCalls) :
             EnvCalls[k] = IF k % 2 = 0 THEN "step" ELSE "get_action_mask"
        /\ calls.get_action_mask = (Len(EnvCalls) - 1) \div 2
        /\ calls.step = Len(actions)
        /\ pc = "step" =>
             /\ Last(EnvCalls) = "get_action_mask"
             /\ iter.fetched # Unbound
             /\ StateFields(td) = output_td.next
        /\ pc # "step" =>
             /\ Last(EnvCalls) = "step"
             /\ td = output_td.next

\* The mask of a second iteration has been fetched.
C12_Witness == pc = "step" /\ calls.get_action_mask = 2 /\ Len(EnvCalls) = 5

\* ---------------------------------------------------------------- C13
\* C13: from the replication on, the state, the node embeddings, the context
\* vector and every recorded action have leading dimension
\* batch_size * num_starts, and so have the returned reward, log_likelihood
\* and actions.
C13_LeadingDimension ==
    pc # "init" =>
        LET T == Traj(batch_size * num_starts)
        IN  /\ expanded_batch_size = batch_size * num_starts
            /\ DOMAIN td.done = T
            /\ DOMAIN td.decoding_phase = T
            /\ DOMAIN td.trajectory_head = T
            /\ DOMAIN td.main_tree_mask = T
            /\ DOMAIN encoded_nodes = T
            /\ DOMAIN context_embedding = T
            /\ \A k \in 1 .. Len(actions) : DOMAIN actions[k] = T
            /\ pc = "returned" =>
                /\ DOMAIN result.reward = T
                /\ DOMAIN result.log_likelihood = T
                /\ DOMAIN result.actions = T

\* A rollout of two instances with two starts each has returned.
C13_Witness == pc = "returned" /\ batch_size = 2 /\ num_starts = 2

\* ---------------------------------------------------------------- C14
\* C14: while forward runs and at return, the context of every trajectory
\* has folded in, in order, the (child, parent) embeddings of each action
\* recorded after the start action and nothing else; every context_gru call
\* follows an env.step call directly, and the start step is followed by none.
C14_ContextUpdatedPerLoopAction ==
    pc \in {"loop", "step", "returned"} =>
        /\ calls.context_gru = Len(actions) - 1
        /\ \A t \in Traj(expanded_batch_size) :
             context_embedding[t].gru =
                [k \in 1 .. (Len(actions) - 1) |->
                    << <<encoded_nodes[t], actions[k + 1][t][1]>>,
                       <<encoded_nodes[t], actions[k + 1][t][2]>> >>]
        /\ \A k \in 1 .. Len(calls.log) :
             /\ calls.log[k] = "context_gru" => calls.log[k - 1] = "step"
             /\ (calls.log[k] = "step" /\ k > 2) =>
                    (k < Len(calls.log) /\ calls.log[k + 1] = "context_gru")
        /\ calls.log[2] = "step"
        /\ Len(calls.log) >= 3 => calls.log[3] # "context_gru"

\* A rollout has returned after folding in a pair whose child and parent differ.
C14_Witness ==
    /\ pc = "returned"
    /\ calls.context_gru >= 1
    /\ \E t \in Traj(expanded_batch_size) :
         context_embedding[t].gru[1][1] # context_embedding[t].gru[1][2]

\* ---------------------------------------------------------------- C15
\* C15 as stated: the context starts as the mean of the node embeddings, and
\* until the env.step of the first loop iteration has completed no selection
\* query is built from it.
C15_InitialContextNotRead ==
    /\ (pc \in {"loop", "step"} /\ calls.context_gru = 0) =>
            context_embedding = mean(encoded_nodes)
    /\ (pc = "step" /\ calls.step = 1) => iter.parent_q_in = Unbound

\* C15 amended: the context starts as the mean of the node embeddings; a
\* selection query is built from it exactly in the iterations of phase 1,
\* from the value it holds then, which in a first loop iteration is the
\* initial mean; an iteration of another phase builds no query from it.
C15_ContextReadByParentQuery ==
    /\ (pc \in {"loop", "step"} /\ calls.context_gru = 0) =>
            context_embedding = mean(encoded_nodes)
    /\ pc = "step" =>
        /\ iter.phase = 1 =>
             iter.parent_q_in =
                cat(context_embedding, embedding_at(encoded_nodes, td.trajectory_head))
        /\ iter.phase # 1 => iter.parent_q_in = Unbound
    /\ pc # "step" => iter.parent_q_in = Unbound

\* A first loop iteration of phase 1 has built its query from the initial mean.
C15_Witness ==
    /\ pc = "step"
    /\ calls.step = 1
    /\ iter.phase = 1
    /\ iter.parent_q_in = cat(mean(encoded_nodes),
                              embedding_at(encoded_nodes, td.trajectory_head))

\* ---------------------------------------------------------------- C16
\* C16: from the loop test to env.step forward leaves done, decoding_phase,
\* trajectory_head and main_tree_mask of the working state, the mask fetched
\* and the node embeddings as they are, and writes the action to commit into
\* the state; after env.step the working state is the state env.step
\* returned; the node embeddings never change once computed.
C16_StateOwnedByEnvironment ==
    [][/\ (pc = "loop" /\ pc' = "step") =>
            /\ StateFields(td') = StateFields(td)
            /\ td'.action = action'
            /\ iter'.mask = iter'.fetched
       /\ pc = "step" => td' = output_td'.next
       /\ (pc = "loop" /\ pc' # "step") => td' = td
       /\ pc # "init" => encoded_nodes' = encoded_nodes]_vars

\* An action has been written into a state in which a trajectory is done.
C16_Witness ==
    /\ pc = "step"
    /\ td.action = action
    /\ \E t \in Traj(expanded_batch_size) : td.done[t]

\* ---------------------------------------------------------------- C17
\* C17: the branch an iteration runs is that of trajectory 0's
\* decoding_phase in the current state, for all trajectories whatever their
\* own decoding_phase: under phase 0 every trajectory's action is
\* (selected node, 0), under phase 1 it is (its trajectory_head, selected
\* node).
C17_LockstepPhase ==
    [][(pc = "loop" /\ pc' = "step") =>
            /\ iter'.phase = td.decoding_phase[0]
            /\ td.decoding_phase[0] = 0 =>
                 \A t \in Traj(expanded_batch_size) :
                    action'[t] = <<iter'.selected[t], 0>>
            /\ td.decoding_phase[0] = 1 =>
                 \A t \in Traj(expanded_batch_size) :
                    action'[t] = <<td.trajectory_head[t], iter'.selected[t]>>]_vars

\* A trajectory in phase 0 has been given a phase-1 action.
C17_Witness ==
    /\ pc = "step"
    /\ iter.phase = 1
    /\ \E t \in Traj(expanded_batch_size) :
         /\ td.decoding_phase[t] = 0
         /\ action[t] = <<td.trajectory_head[t], iter.selected[t]>>
         /\ action[t][2] # 0

\* ---------------------------------------------------------------- C18
\* C18: the action about to be submitted to env.step, and the
\* log-probability recorded with it, were computed in this iteration from
\* the mask and the state read in this iteration.
C18_NoStaleAction ==
    pc = "step" =>
        /\ iter.selected # Unbound
        /\ iter.phase = 0 => action = Phase0Action(iter.selected)
        /\ iter.phase = 1 => action = Phase1Action(td.trajectory_head, iter.selected)
        /\ log_prob_val = gather(iter.log_prob, iter.selected)

\* ---------------------------------------------------------------- C19
\* C19: every iteration selects for every trajectory, done or not; the
\* commit records every trajectory's action and log-probability; at return
\* every trajectory's action sequence has the length of the action list and
\* its log_likelihood is the sum of its log-probabilities over all steps.
C19_DoneTrajectoriesDriven ==
    [][/\ (pc = "loop" /\ pc' = "step" /\ iter'.phase \in {0, 1}) =>
            /\ DOMAIN iter'.selected = Traj(expanded_batch_size)
            /\ DOMAIN action' = Traj(expanded_batch_size)
       /\ (pc = "step" /\ pc' = "loop") =>
            /\ Len(actions') = Len(actions) + 1
            /\ Len(log_probs') = Len(log_probs) + 1
            /\ \A t \in Traj(expanded_batch_size) :
                 /\ Last(actions')[t] = action[t]
                 /\ Last(log_probs')[t] = log_prob_val[t]
       /\ pc' = "returned" =>
            \A t \in Traj(expanded_batch_size) :
                 /\ Len(result'.actions[t]) = Len(actions)
                 /\ result'.log_likelihood[t] =
                        SumOver([k \in 1 .. Len(log_probs) |-> log_probs[k][t]],
                                1 .. Len(log_probs))]_vars

\* A trajectory that is done has been given an action of log-probability
\* below 0, which the commit adds to its log_likelihood.
C19_Witness ==
    /\ Selecting
    /\ \E t \in Traj(expanded_batch_size) :
         /\ td.done[t]
         /\ log_prob_val[t] < 0
         /\ td.action[t] = action[t]

====
